---- MODULE Spec2Model ----
(***************************************************************************)
(* Model of app/controllers/ai.py: the signal fuser                        *)
(* determine_trade_action and the trading engine class AI (construction,   *)
(* update_optimize_params, buy, sell, trade).                              *)
(*                                                                         *)
(* Prices and indicator values are integers in hundredths (0.05 is 5).     *)
(* The arrays talib returns are represented by their last two entries;     *)
(* an entry of the unfilled lookback region is NaN, and every comparison   *)
(* with NaN is false, as in Python.                                        *)
(***************************************************************************)
EXTENDS Integers, Sequences, FiniteSets, TLC

VARIABLES
    pc,                      \* "new": fields set, line 116 not yet run; "ready": constructed
    back_test,               \* self.back_test
    duration,                \* self.duration
    use_percent,             \* self.use_percent, in percent
    stop_limit_percent,      \* self.stop_limit_percent, in percent
    start_trade,             \* self.start_trade
    optimized_trade_params,  \* self.optimized_trade_params
    stop_limit,              \* self.stop_limit
    signal_events,           \* self.signal_events.signals, the TradeRecords emitted
    df,                      \* the frame handed to determine_trade_action
    candle,                  \* df.candles[-1] of the last trade cycle
    action,                  \* what determine_trade_action returned in the last cycle
    called,                  \* which of buy/sell the last cycle called
    ret,                     \* how buy/sell ended in the last cycle
    response,                \* the exchange's answer to the order of the last cycle
    order_sent,              \* the last cycle issued the POST /v1/order request
    lots_closed,             \* trade_close calls that succeeded in the last cycle
    attempts,                \* optimizer runs (update_optimize_params bodies) in the last step
    slept,                   \* seconds of time.sleep in the last step
    pending_reopt,           \* a position was closed and update_optimize_params has not run since
    open_trades,             \* what API.get_open_trade() answers to a sell called on its own
    fail_at,                 \* the lot on which API.trade_close gives None (0: none)
    is_continue_arg,         \* the argument of update_optimize_params called on its own
    fails_left,              \* optimizer runs still to give nothing before one gives a set
    starved                  \* the candle source stays empty or the optimizer keeps giving None

vars == <<pc, back_test, duration, use_percent, stop_limit_percent, start_trade,
          optimized_trade_params, stop_limit, signal_events, df, candle, action,
          called, ret, response, order_sent, lots_closed, attempts, slept,
          pending_reopt, open_trades, fail_at, is_continue_arg, fails_left, starved>>

\* the inputs of sell and of update_optimize_params when called on their own
callVars == <<open_trades, fail_at, is_continue_arg, fails_left, starved>>

----------------------------------------------------------------------------
(* Values *)

\* every defined value of the model is >= 0
NaN == -1

\* > on the stored numbers, with no regard for NaN
GtRaw(a, b) == a > b

Lt(a, b) == a # NaN /\ b # NaN /\ a < b
Le(a, b) == a # NaN /\ b # NaN /\ a <= b
Gt(a, b) == a # NaN /\ b # NaN /\ a > b
Ge(a, b) == a # NaN /\ b # NaN /\ a >= b

\* a - b > 0.05, the test of ema_diff on lines 47-49
GtEmaDiff(a, b) == a # NaN /\ b # NaN /\ a - b > 5

\* optimized_trade_params: None, or the enable flags of a ParameterSet (the
\* periods only select which arrays talib returns, and those are inputs here)
None == [set |-> FALSE, ema_enable |-> FALSE, bb_enable |-> FALSE, macd_enable |-> FALSE]

ParameterSets == [set : {TRUE}, ema_enable : BOOLEAN, bb_enable : BOOLEAN,
                  macd_enable : BOOLEAN]

\* duration_seconds, lines 22-30
duration_seconds(d) ==
    IF d = "1m" THEN 60
    ELSE IF d = "5m" THEN 60 * 5
    ELSE IF d = "1h" THEN 60 * 60
    ELSE 0

----------------------------------------------------------------------------
(* determine_trade_action, lines 33-89 *)

\* line 48
EmaBuy(f) ==
    /\ Lt(f.ema1[1], f.ema2[1])
    /\ Ge(f.ema1[2], f.ema2[2])
    /\ GtEmaDiff(f.ema2[2], f.ema1[2])

\* line 49
EmaSell(f) ==
    /\ Gt(f.ema1[1], f.ema2[1])
    /\ Le(f.ema1[2], f.ema2[2])
    /\ GtEmaDiff(f.ema2[2], f.ema1[2])

\* lines 59 and 62 (the elif: the upper band is tested first)
BbSell(f) == Gt(f.close, f.upper)
BbBuy(f) == ~BbSell(f) /\ Lt(f.close, f.lower)

\* line 73
MacdBuy(f) == Gt(f.macd[2], f.macdsignal[2]) /\ Le(f.macd[1], f.macdsignal[1])

\* line 74
MacdSell(f) == Lt(f.macd[2], f.macdsignal[2]) /\ Ge(f.macd[1], f.macdsignal[1])

\* lines 39-40
NoSignal == [buy_signal |-> FALSE, sell_signal |-> FALSE, signal_strength |-> 0]

\* lines 43-50
EmaBlock(s, f, params) ==
    IF params.ema_enable /\ f.n >= 2
    THEN [buy_signal |-> EmaBuy(f), sell_signal |-> EmaSell(f),
          signal_strength |-> s.signal_strength
                              + (IF EmaBuy(f) \/ EmaSell(f) THEN 1 ELSE 0)]
    ELSE s

\* lines 56-64 with the increment taken from the flags, as lines 50 and 75 do
BbBlockRecount(s, f, params) ==
    IF ~params.bb_enable THEN s
    ELSE LET buy_signal == s.buy_signal \/ BbBuy(f)
             sell_signal == s.sell_signal \/ BbSell(f)
         IN  [buy_signal |-> buy_signal, sell_signal |-> sell_signal,
              signal_strength |-> s.signal_strength
                                  + (IF buy_signal \/ sell_signal THEN 1 ELSE 0)]

\* lines 56-64
BbBlock(s, f, params) ==
    IF ~params.bb_enable THEN s
    ELSE IF BbSell(f)
    THEN [s EXCEPT !.sell_signal = TRUE, !.signal_strength = @ + 1]
    ELSE IF BbBuy(f)
    THEN [s EXCEPT !.buy_signal = TRUE, !.signal_strength = @ + 1]
    ELSE s

\* lines 70-75
MacdBlock(s, f, params) ==
    IF params.macd_enable /\ f.n >= 2
    THEN [buy_signal |-> MacdBuy(f), sell_signal |-> MacdSell(f),
          signal_strength |-> s.signal_strength
                              + (IF MacdBuy(f) \/ MacdSell(f) THEN 1 ELSE 0)]
    ELSE s

\* line 80 with a threshold of 1
StrongSignalWeak(strength) == strength >= 1

\* line 80
StrongSignal(strength) == strength >= 2

\* a ParameterSet with every indicator enabled
AllEnabled == [set |-> TRUE, ema_enable |-> TRUE, bb_enable |-> TRUE,
               macd_enable |-> TRUE]

\* the three blocks run without the tests of lines 43, 56 and 70
FusedAllEnabled(f, params) ==
    MacdBlock(BbBlock(EmaBlock(NoSignal, f, AllEnabled), f, AllEnabled), f, AllEnabled)

\* the state of buy_signal, sell_signal, signal_strength at line 80
Fused(f, params) ==
    MacdBlock(BbBlock(EmaBlock(NoSignal, f, params), f, params), f, params)

\* lines 80-89; a function that falls off its end returns None
Decide(s) ==
    IF StrongSignal(s.signal_strength)
    THEN IF s.buy_signal THEN "BUY"
         ELSE IF s.sell_signal THEN "SELL"
         ELSE "None"
    ELSE "None"

determine_trade_action(f, params) ==
    IF params = None THEN "None" ELSE Decide(Fused(f, params))

----------------------------------------------------------------------------
(* Inputs *)

MaxSignals == 2
MaxLots == 2

\* candle times: before, at and after start_trade (which is 1)
Times == {0, 1, 2}
Closes == {100, 300, 500}
Durations == {"1m", "other"}

\* the last two entries of an array: both defined, only the last, or neither
EmaFast == {<<a, b>> : a \in {NaN, 295, 300, 305}, b \in {NaN, 300, 305, 310, 315}}
EmaSlow == {<<300, 310>>, <<NaN, NaN>>}
Bands == {<<400, 200>>, <<NaN, NaN>>}
MacdLine == {<<a, b>> : a \in {NaN, 9, 10, 11}, b \in {NaN, 9, 10, 11}}
MacdSignalLine == {<<10, 10>>, <<NaN, NaN>>}

\* frames of two bars or more, and frames of one bar (every array is [NaN])
DfSet ==
    { [n |-> 2, ema1 |-> e1, ema2 |-> e2, close |-> c, upper |-> b[1], lower |-> b[2],
       macd |-> m, macdsignal |-> ms] :
        e1 \in EmaFast, e2 \in EmaSlow, c \in Closes, b \in Bands,
        m \in MacdLine, ms \in MacdSignalLine }
    \cup
    { [n |-> 1, ema1 |-> <<NaN, NaN>>, ema2 |-> <<NaN, NaN>>, close |-> c,
       upper |-> NaN, lower |-> NaN, macd |-> <<NaN, NaN>>,
       macdsignal |-> <<NaN, NaN>>] : c \in Closes }

\* the frames of the trade cycles: an EMA sell, with either Bollinger signal and
\* either MACD signal
TradeFrames ==
    { [n |-> 2, ema1 |-> e1, ema2 |-> <<300, 310>>, close |-> c, upper |-> 400,
       lower |-> 200, macd |-> m, macdsignal |-> <<10, 10>>] :
        e1 \in {<<305, 300>>}, c \in {100, 500}, m \in {<<9, 11>>, <<11, 9>>} }

\* what df.optimize_params() returns to the engine: None, or a ParameterSet with
\* every indicator, with none, or with the EMA and the Bollinger bands
OptimizerResults ==
    {None} \cup {p \in ParameterSets : /\ p.ema_enable = p.bb_enable
                                       /\ (p.macd_enable => p.ema_enable)}

\* API.get_balance(): a failed lookup, or the available amount
Balances == {[ok |-> FALSE, available |-> 0], [ok |-> TRUE, available |-> 3]}

\* the response to POST /v1/order
Responses == {"ok", "non2xx", "malformed", "neterr"}

Lots == {[price |-> 100, units |-> -1], [price |-> 300, units |-> 2],
         [price |-> 300, units |-> 0]}

RECURSIVE SeqsUpTo(_, _)
SeqsUpTo(S, k) ==
    IF k = 0 THEN {<<>>}
    ELSE LET shorter == SeqsUpTo(S, k - 1)
         IN shorter \cup {Append(q, x) : q \in {r \in shorter : Len(r) = k - 1}, x \in S}

\* API.get_open_trade(): a failed lookup, or the list of open lots
NoTrades == [ok |-> FALSE, lots |-> <<>>]

OpenTrades == {NoTrades}
              \cup {[ok |-> TRUE, lots |-> l] : l \in SeqsUpTo(Lots, MaxLots)}

\* the signals get_signal_events_by_count(1) can load in live mode
StoredSignals ==
    {<<>>,
     <<[side |-> "BUY", time |-> 0, price_num |-> 300, price_den |-> 1, units |-> 1,
        save |-> TRUE]>>}

NoCandle == [time |-> 0, close |-> 0]
NoFrame == [n |-> 1, ema1 |-> <<NaN, NaN>>, ema2 |-> <<NaN, NaN>>, close |-> 100,
            upper |-> NaN, lower |-> NaN, macd |-> <<NaN, NaN>>,
            macdsignal |-> <<NaN, NaN>>]

----------------------------------------------------------------------------
(* SignalEvents: the trade-record sink and the position it implies *)

Abs(x) == IF x < 0 THEN -x ELSE x

Long(sigs) == Len(sigs) > 0 /\ sigs[Len(sigs)].side = "BUY"
Flat(sigs) == ~Long(sigs)

\* SignalEvents.buy: records the buy and returns True unless already Long
signal_events_buy(sigs, time, price_num, price_den, units, save) ==
    IF Flat(sigs)
    THEN [ok |-> TRUE,
          sigs |-> Append(sigs, [side |-> "BUY", time |-> time, price_num |-> price_num,
                                 price_den |-> price_den, units |-> units, save |-> save])]
    ELSE [ok |-> FALSE, sigs |-> sigs]

\* SignalEvents.sell: records the sell and returns True unless already Flat
signal_events_sell(sigs, time, price_num, price_den, units, save) ==
    IF Long(sigs)
    THEN [ok |-> TRUE,
          sigs |-> Append(sigs, [side |-> "SELL", time |-> time, price_num |-> price_num,
                                 price_den |-> price_den, units |-> units, save |-> save])]
    ELSE [ok |-> FALSE, sigs |-> sigs]

----------------------------------------------------------------------------
(* AI *)

Bool(b) == IF b THEN "true" ELSE "false"

\* how a call of buy or sell ends: ret is "true", "false" or "raise"
\* and response the answer to POST /v1/order ("none": no request was made)
Effect(r, sigs, resp, closed) ==
    [ret |-> r, sigs |-> sigs, response |-> resp, order_sent |-> resp # "none",
     lots_closed |-> closed]

\* lines 149 and 181 with the comparison turned around
StaleFlipped(start, time) == start < time

\* lines 149 and 181
Stale(start, time) == start > time

\* line 158; use_percent is in percent
Units(available, pct) == (available * pct) \div 100

\* lines 146 and 178 with the records of a backtest persisted
BacktestSaveOn == TRUE

\* lines 146 and 178: save=False
BacktestSave == FALSE

\* AI.buy, lines 144-174
buy(sigs, c, balance, resp) ==
    IF back_test
    THEN LET r == signal_events_buy(sigs, c.time, c.close, 1, 1, BacktestSave)
         IN Effect(Bool(r.ok), r.sigs, "none", 0)
    ELSE IF Stale(start_trade, c.time) THEN Effect("false", sigs, "none", 0)
    ELSE IF ~balance.ok THEN Effect("false", sigs, "none", 0)
    ELSE IF resp = "neterr" \/ resp = "malformed"
    THEN Effect("raise", sigs, resp, 0)              \* requests.post or res.json() raises
    ELSE LET r == signal_events_buy(sigs, c.time, c.close, 1,
                                    Units(balance.available, use_percent), TRUE)
         IN Effect(Bool(r.ok), r.sigs, resp, 0)

\* lines 190-195 for the lots closed so far
\* line 194 without abs
RECURSIVE SumPriceSigned(_)
SumPriceSigned(lots) ==
    IF lots = <<>> THEN 0
    ELSE SumPriceSigned(SubSeq(lots, 1, Len(lots) - 1))
         + lots[Len(lots)].price * lots[Len(lots)].units

RECURSIVE SumPrice(_)
SumPrice(lots) ==
    IF lots = <<>> THEN 0
    ELSE SumPrice(SubSeq(lots, 1, Len(lots) - 1))
         + lots[Len(lots)].price * Abs(lots[Len(lots)].units)

RECURSIVE SumUnits(_)
SumUnits(lots) ==
    IF lots = <<>> THEN 0
    ELSE SumUnits(SubSeq(lots, 1, Len(lots) - 1)) + Abs(lots[Len(lots)].units)

\* lines 185-195: the open-position query and the loop closing each lot, where
\* trade_close fails on lot number failAt (0: on none). status is "none" when
\* the query gave nothing, "raise" when a trade_close gave None, else "closed"
CloseAll(trades, failAt) ==
    IF ~trades.ok \/ trades.lots = <<>>
    THEN [status |-> "none", closed |-> 0, sum_price |-> 0, units |-> 0]
    ELSE LET done == SubSeq(trades.lots, 1,
                            IF failAt > 0 THEN failAt - 1 ELSE Len(trades.lots))
         IN [status |-> IF failAt > 0 THEN "raise" ELSE "closed", closed |-> Len(done),
             sum_price |-> SumPrice(done), units |-> SumUnits(done)]

\* every way lines 185-195 can go
CloseRuns ==
    UNION {{CloseAll(trades, failAt) : failAt \in 0 .. Len(trades.lots)} :
                trades \in OpenTrades}

NoRun == [status |-> "none", closed |-> 0, sum_price |-> 0, units |-> 0]

\* AI.sell, lines 176-198
sell(sigs, c, run) ==
    IF back_test
    THEN LET r == signal_events_sell(sigs, c.time, c.close, 1, 1, BacktestSave)
         IN Effect(Bool(r.ok), r.sigs, "none", 0)
    ELSE IF Stale(start_trade, c.time) THEN Effect("false", sigs, "none", 0)
    ELSE IF run.status = "none" THEN Effect("false", sigs, "none", 0)
    ELSE IF run.status = "raise"
    THEN Effect("raise", sigs, "none", run.closed)        \* TypeError on line 194
    ELSE IF run.units = 0
    THEN Effect("raise", sigs, "none", run.closed)        \* ZeroDivisionError, line 197
    ELSE LET r == signal_events_sell(sigs, c.time, run.sum_price, run.units,
                                     run.units, TRUE)
         IN Effect(Bool(r.ok), r.sigs, "none", run.closed)

\* execute_trade_action, lines 92-98
execute_trade_action(a, sigs, c, balance, resp, run) ==
    IF a = "BUY" THEN buy(sigs, c, balance, resp)
    ELSE IF a = "SELL" THEN sell(sigs, c, run)
    ELSE Effect("none", sigs, "none", 0)

\* lines 93 and 96: which method execute_trade_action calls
Called(a) == IF a = "BUY" THEN "buy" ELSE IF a = "SELL" THEN "sell" ELSE "none"

\* lines 120-123: one optimizer run; candles says whether df.candles is non-empty
OptimizeAttempt(current, candles, result) == IF candles THEN result ELSE current

\* lines 129-130 with the sleep taken whatever is_continue is
BackoffAlways(is_continue, params, d) ==
    IF params = None THEN 10 * duration_seconds(d) ELSE 0

\* lines 129-130: the backoff of one run
Backoff(is_continue, params, d) ==
    IF is_continue /\ params = None THEN 10 * duration_seconds(d) ELSE 0

\* line 204 without the test: trade() goes on with whatever it has
StillNotSetNever(params) == FALSE

\* line 204
StillNotSet(params) == params = None

Init ==
    /\ pc = "new"
    /\ back_test \in BOOLEAN
    /\ duration \in Durations
    /\ use_percent = 50
    /\ stop_limit_percent = 95
    /\ start_trade = 1
    /\ optimized_trade_params = None
    /\ stop_limit = 0
    /\ signal_events \in (IF back_test THEN {<<>>} ELSE StoredSignals)
    /\ df = NoFrame
    /\ candle = NoCandle
    /\ action = "NotEvaluated"
    /\ called = "none"
    /\ ret = "none"
    /\ response = "none"
    /\ order_sent = FALSE
    /\ lots_closed = 0
    /\ attempts = 0
    /\ slept = 0
    /\ pending_reopt = FALSE
    /\ open_trades = NoTrades
    /\ fail_at = 0
    /\ is_continue_arg = FALSE
    /\ fails_left = 0
    /\ starved = FALSE

\* line 116: self.update_optimize_params(False)
Construct ==
    /\ pc = "new"
    /\ \E candles \in BOOLEAN, result \in OptimizerResults :
        /\ optimized_trade_params' = OptimizeAttempt(optimized_trade_params, candles, result)
        /\ slept' = Backoff(FALSE, optimized_trade_params', duration)
    /\ attempts' = 1
    /\ pending_reopt' = FALSE
    /\ pc' = "ready"
    /\ UNCHANGED <<back_test, duration, use_percent, stop_limit_percent, start_trade,
                   stop_limit, signal_events, df, candle, action, called, ret,
                   response, order_sent, lots_closed>>
    /\ UNCHANGED callVars

NoBalance == [ok |-> FALSE, available |-> 0]

\* what the call on line 213 can do, over the exchange's answers; the exchange
\* is asked only in live mode and for a candle that is not stale
Outcomes(a, sigs, c) ==
    IF a \notin {"BUY", "SELL"} \/ back_test \/ Stale(start_trade, c.time)
    THEN {execute_trade_action(a, sigs, c, NoBalance, "ok", NoRun)}
    ELSE {execute_trade_action(a, sigs, c, balance, resp, run) :
            balance \in IF a = "BUY" THEN Balances ELSE {NoBalance},
            resp \in IF a = "BUY" THEN Responses ELSE {"ok"},
            run \in IF a = "SELL" THEN CloseRuns ELSE {NoRun}}

\* lines 208-213 with the ParameterSet p; updated says whether line 203 ran
Cycle(p, updated) ==
    \E t \in Times, f \in TradeFrames :
        /\ df' = f
        /\ candle' = [time |-> t, close |-> f.close]
        /\ action' = determine_trade_action(f, p)
        /\ called' = Called(action')
        /\ \E e \in Outcomes(action', signal_events, candle') :
            /\ Len(e.sigs) <= MaxSignals
            /\ ret' = e.ret
            /\ response' = e.response
            /\ signal_events' = e.sigs
            /\ order_sent' = e.order_sent
            /\ lots_closed' = e.lots_closed
            /\ pending_reopt' = IF action' = "SELL" /\ e.ret = "true" THEN TRUE
                                ELSE IF updated THEN FALSE
                                ELSE pending_reopt

\* AI.trade, lines 200-213, with the calls it makes
Trade ==
    /\ pc = "ready"
    /\ IF optimized_trade_params = None
       THEN \E candles \in BOOLEAN, result \in OptimizerResults :
            /\ optimized_trade_params' =
                    OptimizeAttempt(optimized_trade_params, candles, result)
            /\ attempts' = 1
            /\ slept' = Backoff(FALSE, optimized_trade_params', duration)
            /\ IF StillNotSet(optimized_trade_params')
               THEN /\ action' = "NotEvaluated"
                    /\ called' = "none"
                    /\ ret' = "none"
                    /\ response' = "none"
                    /\ order_sent' = FALSE
                    /\ lots_closed' = 0
                    /\ pending_reopt' = FALSE
                    /\ UNCHANGED <<signal_events, candle, df>>
               ELSE Cycle(optimized_trade_params', TRUE)
       ELSE /\ UNCHANGED optimized_trade_params
            /\ attempts' = 0
            /\ slept' = 0
            /\ Cycle(optimized_trade_params, FALSE)
    /\ UNCHANGED <<pc, back_test, duration, use_percent, stop_limit_percent,
                   start_trade, stop_limit>>
    /\ UNCHANGED callVars

Next == Construct \/ Trade

Spec == Init /\ [][Next]_vars

----------------------------------------------------------------------------
(* The fuser on its own: every frame and every ParameterSet, evaluated once *)

InitFuser ==
    /\ pc = "fuser"
    /\ back_test = TRUE
    /\ duration = "1m"
    /\ use_percent = 50
    /\ stop_limit_percent = 95
    /\ start_trade = 1
    /\ optimized_trade_params \in ParameterSets \cup {None}
    /\ stop_limit = 0
    /\ signal_events = <<>>
    /\ df \in DfSet
    /\ candle = NoCandle
    /\ action = "NotEvaluated"
    /\ called = "none"
    /\ ret = "none"
    /\ response = "none"
    /\ order_sent = FALSE
    /\ lots_closed = 0
    /\ attempts = 0
    /\ slept = 0
    /\ pending_reopt = FALSE
    /\ open_trades = NoTrades
    /\ fail_at = 0
    /\ is_continue_arg = FALSE
    /\ fails_left = 0
    /\ starved = FALSE

Evaluate ==
    /\ pc = "fuser"
    /\ action = "NotEvaluated"
    /\ action' = determine_trade_action(df, optimized_trade_params)
    /\ UNCHANGED <<pc, back_test, duration, use_percent, stop_limit_percent,
                   start_trade, optimized_trade_params, stop_limit, signal_events, df,
                   candle, called, ret, response, order_sent, lots_closed, attempts,
                   slept, pending_reopt>>
    /\ UNCHANGED callVars

NextFuser == Evaluate

SpecFuser == InitFuser /\ [][NextFuser]_vars

----------------------------------------------------------------------------
(* AI.sell on its own: one call, over every answer of the exchange *)

\* self.signal_events when sell is called: no position, or an open BUY
SellSignals(bt) ==
    {<<>>,
     <<[side |-> "BUY", time |-> 0, price_num |-> 300, price_den |-> 1, units |-> 1,
        save |-> ~bt]>>}

\* the candle handed to sell
Candles == {[time |-> t, close |-> c] : t \in Times, c \in Closes}

InitSell ==
    /\ pc = "sell"
    /\ back_test \in BOOLEAN
    /\ duration = "1m"
    /\ use_percent = 50
    /\ stop_limit_percent = 95
    /\ start_trade = 1
    /\ optimized_trade_params = AllEnabled
    /\ stop_limit = 0
    /\ signal_events \in SellSignals(back_test)
    /\ df = NoFrame
    /\ candle \in Candles
    /\ action = "SELL"
    /\ called = "none"
    /\ ret = "none"
    /\ response = "none"
    /\ order_sent = FALSE
    /\ lots_closed = 0
    /\ attempts = 0
    /\ slept = 0
    /\ pending_reopt = FALSE
    /\ open_trades \in OpenTrades
    /\ fail_at \in 0 .. Len(open_trades.lots)
    /\ is_continue_arg = FALSE
    /\ fails_left = 0
    /\ starved = FALSE

\* AI.sell, lines 176-198
SellCall ==
    /\ pc = "sell"
    /\ called = "none"
    /\ called' = "sell"
    /\ LET e == sell(signal_events, candle, CloseAll(open_trades, fail_at))
       IN  /\ ret' = e.ret
           /\ signal_events' = e.sigs
           /\ response' = e.response
           /\ order_sent' = e.order_sent
           /\ lots_closed' = e.lots_closed
    /\ UNCHANGED <<pc, back_test, duration, use_percent, stop_limit_percent,
                   start_trade, optimized_trade_params, stop_limit, df, candle,
                   action, attempts, slept, pending_reopt>>
    /\ UNCHANGED callVars

NextSell == SellCall

SpecSell == InitSell /\ [][NextSell]_vars

----------------------------------------------------------------------------
(* AI.update_optimize_params on its own: one call and the calls it makes of
   itself, over what the candle source and the optimizer give *)

MaxFails == 3

\* the runs a call is followed through
MaxAttempts == MaxFails + 2

OptimizeDurations == {"1m", "5m", "1h", "other"}

\* line 129: the run is followed by a sleep and another run
Retry(is_continue, params) == is_continue /\ params = None

\* what one run finds: no candles, candles and no ParameterSet, or a set
Findings(refused) ==
    IF refused
    THEN {[candles |-> FALSE, result |-> None], [candles |-> TRUE, result |-> None]}
    ELSE {[candles |-> TRUE, result |-> r] : r \in OptimizerResults \ {None}}

\* both callers (lines 116 and 203) call with optimized_trade_params None
InitOptimize ==
    /\ pc = "update"
    /\ back_test = FALSE
    /\ duration \in OptimizeDurations
    /\ use_percent = 50
    /\ stop_limit_percent = 95
    /\ start_trade = 1
    /\ optimized_trade_params = None
    /\ stop_limit = 0
    /\ signal_events = <<>>
    /\ df = NoFrame
    /\ candle = NoCandle
    /\ action = "NotEvaluated"
    /\ called = "none"
    /\ ret = "none"
    /\ response = "none"
    /\ order_sent = FALSE
    /\ lots_closed = 0
    /\ attempts = 0
    /\ slept = 0
    /\ pending_reopt = FALSE
    /\ open_trades = NoTrades
    /\ fail_at = 0
    /\ is_continue_arg \in BOOLEAN
    /\ fails_left \in 0 .. MaxFails
    /\ starved \in BOOLEAN

\* one run of the body of update_optimize_params, lines 118-131; "returned" is
\* the return of the outermost call
UpdateOptimizeParams ==
    /\ pc = "update"
    /\ attempts < MaxAttempts
    /\ \E found \in Findings(starved \/ fails_left > 0) :
        optimized_trade_params' =
            OptimizeAttempt(optimized_trade_params, found.candles, found.result)
    /\ attempts' = attempts + 1
    /\ slept' = slept + Backoff(is_continue_arg, optimized_trade_params', duration)
    /\ fails_left' = IF fails_left > 0 THEN fails_left - 1 ELSE 0
    /\ pc' = IF Retry(is_continue_arg, optimized_trade_params') THEN "update"
             ELSE "returned"
    /\ UNCHANGED <<back_test, duration, use_percent, stop_limit_percent, start_trade,
                   stop_limit, signal_events, df, candle, action, called, ret,
                   response, order_sent, lots_closed, pending_reopt, open_trades,
                   fail_at, is_continue_arg, starved>>

NextOptimize == UpdateOptimizeParams

\* a run that began goes on: time.sleep returns and the call is made
SpecOptimize == InitOptimize /\ [][NextOptimize]_vars /\ WF_vars(NextOptimize)

----------------------------------------------------------------------------
(* Properties of determine_trade_action, checked under SpecFuser *)

Evaluated == pc = "fuser" /\ action # "NotEvaluated"

One(b) == IF b THEN 1 ELSE 0

\* the enabled indicators whose buy (sell) condition holds on the latest two bars
EmaFiredBuy(f, p) == p.ema_enable /\ f.n >= 2 /\ EmaBuy(f)
EmaFiredSell(f, p) == p.ema_enable /\ f.n >= 2 /\ EmaSell(f)
BbFiredBuy(f, p) == p.bb_enable /\ BbBuy(f)
BbFiredSell(f, p) == p.bb_enable /\ BbSell(f)
MacdFiredBuy(f, p) == p.macd_enable /\ f.n >= 2 /\ MacdBuy(f)
MacdFiredSell(f, p) == p.macd_enable /\ f.n >= 2 /\ MacdSell(f)

BuyCount(f, p) ==
    One(EmaFiredBuy(f, p)) + One(BbFiredBuy(f, p)) + One(MacdFiredBuy(f, p))
SellCount(f, p) ==
    One(EmaFiredSell(f, p)) + One(BbFiredSell(f, p)) + One(MacdFiredSell(f, p))
FiredCount(f, p) ==
    One(EmaFiredBuy(f, p) \/ EmaFiredSell(f, p))
    + One(BbFiredBuy(f, p) \/ BbFiredSell(f, p))
    + One(MacdFiredBuy(f, p) \/ MacdFiredSell(f, p))

\* C1: determine_trade_action returns BUY or SELL only when signal_strength has
\* reached 2 and two enabled indicators fired; whenever fewer than 2 enabled
\* indicators fired it returns None, even if one indicator fired.
C1_DirectionOnlyAtThreshold ==
    Evaluated =>
        /\ action \in {"BUY", "SELL"} =>
              /\ optimized_trade_params # None
              /\ Fused(df, optimized_trade_params).signal_strength >= 2
              /\ FiredCount(df, optimized_trade_params) >= 2
        /\ FiredCount(df, optimized_trade_params) < 2 => action = "None"

\* C1 witness: two indicators are enabled, exactly one fired, and the fuser
\* returned None.
C1_OneFiredNoAction ==
    /\ Evaluated
    /\ optimized_trade_params.ema_enable /\ optimized_trade_params.bb_enable
    /\ FiredCount(df, optimized_trade_params) = 1
    /\ action = "None"

\* C2: whenever determine_trade_action returns BUY (SELL), at least two enabled
\* indicators produced a buy (sell) signal on the latest two bars.
C2_DirectionCorroborated ==
    Evaluated =>
        /\ action = "BUY" => BuyCount(df, optimized_trade_params) >= 2
        /\ action = "SELL" => SellCount(df, optimized_trade_params) >= 2

\* C3: whenever the corroboration counter reaches 2 and some enabled indicator's
\* buy condition fired, the result is BUY, also when another enabled indicator's
\* sell condition fired in the same evaluation.
C3_BuyWinsTieBreak ==
    ( /\ Evaluated
      /\ optimized_trade_params # None
      /\ Fused(df, optimized_trade_params).signal_strength >= 2
      /\ BuyCount(df, optimized_trade_params) >= 1 )
    => action = "BUY"

----------------------------------------------------------------------------
(* Properties of the engine, checked under Spec *)

\* the close is at or below entry price x stop_limit_percent, the stop price an
\* open position carries, for the entry recorded last
AtOrBelowStop(close, sigs, pct) ==
    close * 100 * sigs[Len(sigs)].price_den <= sigs[Len(sigs)].price_num * pct

\* C4: in every trade cycle, whatever the fuser returns, a Long position whose
\* bar closes at or below its stop price is exited on that bar: sell is called.
C4_StopLossForcesExit ==
    [][ ( /\ pc = "ready"
          /\ Long(signal_events)
          /\ action' # "NotEvaluated"
          /\ AtOrBelowStop(candle'.close, signal_events, stop_limit_percent) )
        => called' = "sell" ]_vars

\* C5: between trade cycles stop_limit is 0 whenever the position is Flat and
\* is > 0 whenever the position is Long.
C5_StopPriceInvariant ==
    pc = "ready" =>
        /\ Flat(signal_events) => stop_limit = 0
        /\ Long(signal_events) => stop_limit > 0

\* C6: in live mode a cycle whose order submission failed (the request raised,
\* the response was not 2xx or its body was malformed, or buy/sell raised)
\* emits no TradeRecord.
C6_FailedOrderEmitsNothing ==
    [][ ( /\ pc = "ready"
          /\ ~back_test
          /\ \/ response' \in {"non2xx", "malformed", "neterr"}
             \/ ret' = "raise" )
        => signal_events' = signal_events ]_vars

\* C7 as stated: in every mode, a buy or sell for a candle older than
\* start_trade returns failure, submits no order and emits no TradeRecord.
C7_StaleRejectedInEveryMode ==
    [][ ( /\ pc = "ready"
          /\ called' # "none"
          /\ candle'.time < start_trade )
        => ( /\ ret' = "false"
             /\ ~order_sent'
             /\ lots_closed' = 0
             /\ signal_events' = signal_events ) ]_vars

\* C7 amended: in live mode (back_test false), a buy or sell for a candle older
\* than start_trade returns failure, submits no order, closes no lot and emits
\* no TradeRecord.
C7_StaleRejectedLive ==
    [][ ( /\ pc = "ready"
          /\ ~back_test
          /\ called' # "none"
          /\ candle'.time < start_trade )
        => ( /\ ret' = "false"
             /\ ~order_sent'
             /\ lots_closed' = 0
             /\ signal_events' = signal_events ) ]_vars

\* C7 witness: a live cycle called buy or sell for a stale candle and got False.
C7_StaleCallRejected ==
    /\ pc = "ready"
    /\ ~back_test
    /\ called # "none"
    /\ candle.time < start_trade
    /\ ret = "false"

\* C8: after a position close, update_optimize_params runs before the next
\* trade cycle evaluates signals: a cycle that starts with a close not yet
\* followed by a re-optimization runs one before it evaluates.
C8_ReoptimizeAfterClose ==
    [][ ( /\ pc = "ready"
          /\ pending_reopt
          /\ action' # "NotEvaluated" )
        => attempts' > 0 ]_vars

\* C9: construction never completes with the ParameterSet absent.
C9_ConstructedWithParameterSet ==
    pc = "ready" => optimized_trade_params # None

\* C10: a trade cycle that ends with the ParameterSet absent ran exactly one
\* re-optimization, did not evaluate signals, called neither buy nor sell, sent
\* no order and emitted no TradeRecord; so buy and sell are called only with a
\* ParameterSet present.
C10_NoOrderWhileAbsent ==
    [][ ( /\ pc = "ready"
          /\ optimized_trade_params' = None )
        => ( /\ attempts' = 1
             /\ slept' = 0
             /\ action' = "NotEvaluated"
             /\ called' = "none"
             /\ ~order_sent'
             /\ lots_closed' = 0
             /\ signal_events' = signal_events ) ]_vars

\* C10 witness: a cycle found the ParameterSet absent, obtained one from its
\* single re-optimization, and went on to call buy or sell.
C10_TradedAfterReoptimization ==
    /\ pc = "ready"
    /\ attempts = 1
    /\ optimized_trade_params # None
    /\ called # "none"

\* C11: in backtest mode every TradeRecord has save = False, the candle's
\* close as its price and the unit size 1.0, and no exchange call is made: no
\* order is sent and no lot is closed, after any sequence of cycles.
C11_BacktestNeverPersists ==
    (pc = "ready" /\ back_test) =>
        /\ \A i \in 1 .. Len(signal_events) :
              /\ ~signal_events[i].save
              /\ signal_events[i].units = 1
              /\ signal_events[i].price_den = 1
        /\ ~order_sent
        /\ response = "none"
        /\ lots_closed = 0
        /\ ret = "true" =>
              /\ signal_events[Len(signal_events)].price_num = candle.close
              /\ signal_events[Len(signal_events)].time = candle.time
              /\ signal_events[Len(signal_events)].side = action

\* C11 witness: a backtest recorded a buy and then a sell.
C11_BacktestRoundTrip ==
    /\ pc = "ready"
    /\ back_test
    /\ Len(signal_events) = 2
    /\ called = "sell"
    /\ ret = "true"

\* C13: construction never completes with a duration that maps to 0 seconds.
C13_UnrecognizedDurationRejected ==
    pc = "ready" => duration_seconds(duration) > 0

\* C14: with the EMA enabled, a fast EMA below the slow EMA on the previous
\* bar and at or above it on the latest bar makes the EMA block set the buy
\* flag and add one to signal_strength.
C14_UpwardCrossIsBuy ==
    ( /\ Evaluated
      /\ optimized_trade_params # None
      /\ optimized_trade_params.ema_enable
      /\ df.n >= 2
      /\ Lt(df.ema1[1], df.ema2[1])
      /\ Ge(df.ema1[2], df.ema2[2]) ) =>
        LET s == EmaBlock(NoSignal, df, optimized_trade_params)
        IN  s.buy_signal /\ s.signal_strength = 1

\* the flags and the counter after the EMA block, and after the Bollinger block
AfterEma == EmaBlock(NoSignal, df, optimized_trade_params)
AfterBb == BbBlock(AfterEma, df, optimized_trade_params)
AfterMacd == MacdBlock(AfterBb, df, optimized_trade_params)

\* a block that adds nothing to the counter and turns no flag on
AddsNothing(before, after) ==
    /\ after.signal_strength = before.signal_strength
    /\ after.buy_signal => before.buy_signal
    /\ after.sell_signal => before.sell_signal

EmaUndefined(f) == f.ema1[2] = NaN \/ f.ema2[2] = NaN
BbUndefined(f) == f.upper = NaN /\ f.lower = NaN
MacdUndefined(f) == f.macd[2] = NaN \/ f.macdsignal[2] = NaN

\* C15: an enabled indicator whose latest values are NaN adds nothing to
\* signal_strength and sets neither buy_signal nor sell_signal, for the EMA,
\* the Bollinger bands and the MACD.
C15_UndefinedContributesNothing ==
    (Evaluated /\ optimized_trade_params # None) =>
        /\ (optimized_trade_params.ema_enable /\ EmaUndefined(df))
               => AddsNothing(NoSignal, AfterEma)
        /\ (optimized_trade_params.bb_enable /\ BbUndefined(df))
               => AddsNothing(AfterEma, AfterBb)
        /\ (optimized_trade_params.macd_enable /\ MacdUndefined(df))
               => AddsNothing(AfterBb, AfterMacd)

\* C15 witness: every indicator is enabled and undefined on the latest bar of a
\* two-bar frame whose close is positive, and the result is None.
C15_AllUndefinedEvaluated ==
    /\ Evaluated
    /\ optimized_trade_params = AllEnabled
    /\ df.n = 2
    /\ EmaUndefined(df) /\ BbUndefined(df) /\ MacdUndefined(df)
    /\ df.macd[1] # NaN /\ df.ema1[1] # NaN
    /\ action = "None"

AllDisabled(p) == p # None /\ ~p.ema_enable /\ ~p.bb_enable /\ ~p.macd_enable

\* C16: with a ParameterSet whose indicators are all disabled,
\* determine_trade_action returns None for every frame and trade() calls
\* neither buy nor sell.
C16_AllDisabledReturnsNone ==
    (Evaluated /\ AllDisabled(optimized_trade_params)) =>
        action = "None" /\ Called(action) = "none"

\* C16 witness: all indicators are disabled on a frame where the EMA and the
\* Bollinger bands would both have fired.
C16_DisabledOnFiringFrame ==
    /\ Evaluated
    /\ AllDisabled(optimized_trade_params)
    /\ df.n = 2 /\ EmaSell(df) /\ BbSell(df)
    /\ action = "None"

\* C17: at line 80 signal_strength is the number of enabled indicators that
\* fired in either direction; each block adds 0 or 1, a disabled block adds 0.
C17_StrengthCountsFiredIndicators ==
    (Evaluated /\ optimized_trade_params # None) =>
        /\ Fused(df, optimized_trade_params).signal_strength
               = FiredCount(df, optimized_trade_params)
        /\ AfterEma.signal_strength
               = One(EmaFiredBuy(df, optimized_trade_params)
                     \/ EmaFiredSell(df, optimized_trade_params))
        /\ AfterBb.signal_strength - AfterEma.signal_strength
               = One(BbFiredBuy(df, optimized_trade_params)
                     \/ BbFiredSell(df, optimized_trade_params))
        /\ AfterMacd.signal_strength - AfterBb.signal_strength
               = One(MacdFiredBuy(df, optimized_trade_params)
                     \/ MacdFiredSell(df, optimized_trade_params))

\* C17 witness: the EMA fired, the enabled Bollinger bands did not, the MACD
\* fired: the EMA's flag is still set at the later blocks and the counter is 2.
C17_LeftoverNotRecounted ==
    /\ Evaluated
    /\ optimized_trade_params = AllEnabled
    /\ EmaFiredSell(df, optimized_trade_params)
    /\ ~BbSell(df) /\ ~BbBuy(df)
    /\ MacdFiredBuy(df, optimized_trade_params)
    /\ Fused(df, optimized_trade_params).signal_strength = 2

----------------------------------------------------------------------------
(* Properties of AI.sell, checked under SpecSell *)

\* a live sell that reached the exchange and closed lots without a failure
LiveSellClosed ==
    /\ pc = "sell"
    /\ called = "sell"
    /\ ~back_test
    /\ ~Stale(start_trade, candle.time)
    /\ open_trades.ok
    /\ open_trades.lots # <<>>
    /\ fail_at = 0

\* the units and the value of the lots, counted from the first lot on
RECURSIVE TotalUnitsFrom(_, _)
TotalUnitsFrom(lots, i) ==
    IF i > Len(lots) THEN 0
    ELSE (IF lots[i].units < 0 THEN 0 - lots[i].units ELSE lots[i].units)
         + TotalUnitsFrom(lots, i + 1)

RECURSIVE TotalValueFrom(_, _)
TotalValueFrom(lots, i) ==
    IF i > Len(lots) THEN 0
    ELSE lots[i].price * (IF lots[i].units < 0 THEN 0 - lots[i].units ELSE lots[i].units)
         + TotalValueFrom(lots, i + 1)

\* C12: a live sell whose closed lots sum to zero units returns False and emits
\* no TradeRecord.
C12_ZeroUnitsRejected ==
    (LiveSellClosed /\ TotalUnitsFrom(open_trades.lots, 1) = 0) =>
        /\ ret = "false"
        /\ \A i \in 1 .. Len(signal_events) : signal_events[i].side # "SELL"

\* C18: a live sell that returns True has closed every open lot, once each, and
\* appended one TradeRecord: a persisted SELL whose units are the sum of the
\* lots' absolute units and whose price is their volume-weighted average.
C18_SellClosesEveryLot ==
    (pc = "sell" /\ called = "sell" /\ ~back_test /\ ret = "true") =>
        /\ LiveSellClosed
        /\ lots_closed = Len(open_trades.lots)
        /\ Len(signal_events) = 2
        /\ signal_events[1].side = "BUY"
        /\ LET rec == signal_events[2]
           IN  /\ rec.side = "SELL"
               /\ rec.save
               /\ rec.time = candle.time
               /\ rec.units = TotalUnitsFrom(open_trades.lots, 1)
               /\ rec.price_den > 0
               /\ rec.price_num * TotalUnitsFrom(open_trades.lots, 1)
                      = TotalValueFrom(open_trades.lots, 1) * rec.price_den

\* C18 witness: a live sell closed two lots, one of them short, and returned
\* True.
C18_TwoLotsSold ==
    /\ pc = "sell" /\ called = "sell" /\ ~back_test /\ ret = "true"
    /\ Len(open_trades.lots) = 2
    /\ open_trades.lots[1].units < 0
    /\ open_trades.lots[2].units > 0
    /\ lots_closed = 2

----------------------------------------------------------------------------
(* Properties of AI.update_optimize_params, checked under SpecOptimize *)

\* the runs that ended with optimized_trade_params None
FailedAttempts ==
    IF pc = "returned" /\ optimized_trade_params # None THEN attempts - 1 ELSE attempts

\* what holds of update_optimize_params in every state
C19_ReturnsOnlyWithParameterSet ==
    /\ pc \in {"update", "returned"}
    /\ (pc = "returned" /\ is_continue_arg) => optimized_trade_params # None
    /\ (pc = "returned" /\ ~is_continue_arg) => (attempts = 1 /\ slept = 0)
    /\ is_continue_arg => slept = 10 * duration_seconds(duration) * FailedAttempts
    /\ (is_continue_arg /\ starved) => pc # "returned"

====
